---------------------------- MODULE Spec2Model ----------------------------
(***************************************************************************)
(* State-machine model of nextjs-boilerplate-cli (version 1.0.7, the CLI   *)
(* entry file of the package).  One process invocation at a time runs one  *)
(* command against a project directory; the filesystem persists between    *)
(* invocations.                                                            *)
(*                                                                         *)
(* Paths are sequences of path components relative to process.cwd().  A    *)
(* path whose first component is "/" is an absolute path at the root of    *)
(* the host filesystem: the template string `${baseFolder}/x` with         *)
(* baseFolder = "" is "/x", which path.join(process.cwd(), ...) turns back *)
(* into a path under the project, and which a bare fs call does not.       *)
(*                                                                         *)
(* File contents are sequences of lines.  Text typed by the user is a      *)
(* sequence of tokens: a word, the separator "," or the blank " ".         *)
(***************************************************************************)
EXTENDS Integers, Sequences, FiniteSets, TLC

VARIABLES
    fs,             \* the filesystem: path -> [kind, content]
    rootWritable,   \* whether this user may create entries directly under "/"
    pc,             \* position of the running command ("idle": none yet)
    cmd,            \* the command of the current invocation
    exitCode,       \* exit status of the last finished invocation (-1: running)
    log,            \* what the current invocation did and printed, in order
    fs0,            \* the filesystem when the current invocation started
    runs,           \* number of invocations started so far
    edits,          \* number of manual edits made by the user so far
    detectedSetup,  \* the record detectProjectSetup returned
    baseFolder,     \* "src" or ""
    args,           \* command-line arguments and options of the invocation
    todo,           \* add-module: module names still to process
    answers,        \* what the user answered to the prompts of the invocation
    fsPre           \* the filesystem when the external installer was invoked

vars == <<fs, rootWritable, pc, cmd, exitCode, log, fs0, runs, edits,
          detectedSetup, baseFolder, args, todo, answers, fsPre>>

-----------------------------------------------------------------------------
(* Bounds of the model.                                                    *)

MaxRuns == 1

MaxEdits == 1

-----------------------------------------------------------------------------
(* Text.                                                                   *)

RECURSIVE Str(_)
\* A token sequence as one string.
Str(s) == IF s = <<>> THEN "" ELSE Head(s) \o Str(Tail(s))

RECURSIVE TrimLeft(_)
TrimLeft(s) == IF s # <<>> /\ Head(s) = " " THEN TrimLeft(Tail(s)) ELSE s

RECURSIVE TrimRight(_)
TrimRight(s) ==
    IF s # <<>> /\ s[Len(s)] = " " THEN TrimRight(SubSeq(s, 1, Len(s) - 1)) ELSE s

\* String.prototype.trim
Trim(s) == TrimRight(TrimLeft(s))

RECURSIVE SplitFrom(_, _)
\* String.prototype.split(","): cur is the piece being read.
SplitFrom(s, cur) ==
    IF s = <<>> THEN <<cur>>
    ELSE IF Head(s) = "," THEN <<cur>> \o SplitFrom(Tail(s), <<>>)
    ELSE SplitFrom(Tail(s), Append(cur, Head(s)))

Split(s) == SplitFrom(s, <<>>)

MapTrim(pieces) == [i \in 1..Len(pieces) |-> Trim(pieces[i])]

\* Array.prototype.filter((name) => name !== "")
NonEmpty(pieces) == SelectSeq(pieces, LAMBDA x : x # <<>>)

\* .split(",").map((name) => name.trim()).filter((name) => name !== "")
ParseNames(raw) == NonEmpty(MapTrim(Split(raw)))

Strs(pieces) == [i \in 1..Len(pieces) |-> Str(pieces[i])]

Range(s) == {s[i] : i \in 1..Len(s)}

\* The upper-case form of the first letter of a word token.
UpperFirst(w) ==
    CASE w = "a" -> "A"
      [] w = "b" -> "B"
      [] w = "m" -> "M"
      [] w = "auth" -> "Auth"
      [] w = "login" -> "Login"
      [] w = "register" -> "Register"
      [] OTHER -> w

\* The lower-case form of a token.
LowerToken(w) ==
    CASE w = "Auth" -> "auth"
      [] w = "M" -> "m"
      [] w = "Btn" -> "btn"
      [] w = "Card" -> "card"
      [] OTHER -> w

\* String.prototype.toLowerCase
ToLowerCase(s) == [i \in 1..Len(s) |-> LowerToken(s[i])]

\* capitalizeFirstLetter: string.charAt(0).toUpperCase() + string.slice(1)
capitalizeFirstLetter(s) == IF s = <<>> THEN s ELSE <<UpperFirst(Head(s))>> \o Tail(s)

-----------------------------------------------------------------------------
(* The filesystem.                                                         *)

DirNode == [kind |-> "dir", content |-> <<>>]

FileNode(c) == [kind |-> "file", content |-> c]

Parent(p) == SubSeq(p, 1, Len(p) - 1)

Prefixes(p) == {SubSeq(p, 1, k) : k \in 1..Len(p)}

Outside(p) == p # <<>> /\ Head(p) = "/"

\* path.join(process.cwd(), p)
JoinCwd(p) == IF Outside(p) THEN Tail(p) ELSE p

\* The template string `${baseFolder}/<rest>`.
Under(base, rest) == IF base = "" THEN <<"/">> \o rest ELSE <<base>> \o rest

\* fs.existsSync
ExistsSync(f, p) == p \in DOMAIN f

IsDir(f, p) == p \in DOMAIN f /\ f[p].kind = "dir"

IsFile(f, p) == p \in DOMAIN f /\ f[p].kind = "file"

\* The entries directly inside directory d.
Children(f, d) == {p \in DOMAIN f : Len(p) = Len(d) + 1 /\ Parent(p) = d}

Put(f, p, node) == [q \in DOMAIN f \cup {p} |-> IF q = p THEN node ELSE f[q]]

\* Whether mkdir -p p can succeed: no prefix is a regular file, and an entry
\* under "/" can be created only by a user allowed to.
CanMkdir(f, w, p) ==
    /\ \A q \in Prefixes(p) : ~IsFile(f, q)
    /\ (Outside(p) /\ \E q \in Prefixes(p) : q \notin DOMAIN f) => w

\* shell.mkdir("-p", p): creates the missing directories of p; on failure it
\* reports and returns (shelljs does not throw), leaving the filesystem as is.
MkdirP(f, w, p) ==
    IF CanMkdir(f, w, p)
    THEN [q \in DOMAIN f \cup Prefixes(p) |-> IF q \in DOMAIN f THEN f[q] ELSE DirNode]
    ELSE f

\* Whether fs.writeFileSync(p, ...) succeeds: the parent is a directory and p
\* is not one.
CanWrite(f, w, p) ==
    /\ IsDir(f, Parent(p))
    /\ ~IsDir(f, p)
    /\ (Outside(p) /\ Len(p) = 2 /\ p \notin DOMAIN f) => w

Ev(op, arg) == [op |-> op, arg |-> arg]

\* The running state of a handler: the filesystem, the log, and whether an
\* exception has been thrown (every later step is then skipped).
St(f, l) == [fs |-> f, log |-> l, threw |-> FALSE]

Say(st, op, arg) == [st EXCEPT !.log = Append(@, Ev(op, arg))]

\* fs.writeFileSync(p, c)
WriteFileSync(st, w, p, c) ==
    IF st.threw THEN st
    ELSE IF CanWrite(st.fs, w, p)
    THEN [st EXCEPT !.fs = Put(@, p, FileNode(c)), !.log = Append(@, Ev("write", p))]
    ELSE [st EXCEPT !.threw = TRUE, !.log = Append(@, Ev("throw", p))]

\* Variant of EnsureDir that fails on a directory that already exists.
EnsureDirStrict(st, w, p, logsSkip) ==
    IF st.threw THEN st
    ELSE IF ~ExistsSync(st.fs, p)
    THEN [st EXCEPT !.fs = MkdirP(@, w, p), !.log = Append(@, Ev("mkdir", p))]
    ELSE [st EXCEPT !.threw = TRUE, !.log = Append(@, Ev("throw", p))]

\* Variant of EnsureDir that creates the directory even when it exists.
EnsureDirAlways(st, w, p, logsSkip) ==
    IF st.threw THEN st
    ELSE [st EXCEPT !.fs = MkdirP(@, w, p), !.log = Append(@, Ev("mkdir", p))]

\* if (!fs.existsSync(p)) { shell.mkdir("-p", p); log Created }
\* else { log Skipped }   (the else branch only where the code has one)
EnsureDir(st, w, p, logsSkip) ==
    IF st.threw THEN st
    ELSE IF ~ExistsSync(st.fs, p)
    THEN [st EXCEPT !.fs = MkdirP(@, w, p), !.log = Append(@, Ev("mkdir", p))]
    ELSE IF logsSkip THEN Say(st, "skip", p) ELSE st

\* Variant of WriteIfAbsent that writes the file whether or not it exists.
WriteAlways(st, w, p, c, logsSkip) == WriteFileSync(st, w, p, c)

\* if (!fs.existsSync(p)) { fs.writeFileSync(p, c); log Created }
\* else { log Skipped }
WriteIfAbsent(st, w, p, c, logsSkip) ==
    IF st.threw THEN st
    ELSE IF ~ExistsSync(st.fs, p) THEN WriteFileSync(st, w, p, c)
    ELSE IF logsSkip THEN Say(st, "skip", p) ELSE st


-----------------------------------------------------------------------------
(* Templates shipped with the package (the templates directory beside the  *)
(* entry file).  A template is named by its path under templates/.         *)

ShippedTemplates ==
    { "app/layout.template.tsx", "app/error.template.tsx", "app/page.template.tsx",
      "pages/_app.template.tsx", "pages/_error.template.tsx",
      "pages/index.template.tsx",
      "lib/api.template.ts", "lib/constants.template.ts",
      "app/(auth)/login/page.template.tsx", "app/(auth)/register/page.template.tsx",
      "pages/auth/login/page.template.tsx", "pages/auth/register/page.template.tsx" }

\* fs.readFileSync(templatePath, "utf-8")
TemplateContent(t) == <<"template " \o t>>

\* `// TODO: Change this file according to your exact requirement.\n\n${content}`
Advisory(c) == <<"// TODO: Change this file according to your exact requirement.", "">> \o c

-----------------------------------------------------------------------------
(* detectProjectSetup                                                      *)

AppRouter == "App Router"

PagesRouter == "Pages Router"

NoSetup == [ok |-> FALSE, routerType |-> "", hasSrc |-> FALSE, hasPages |-> FALSE]

\* Variant of SelectRouter that checks the pages marker first.
SelectRouterPagesFirst(hasApp, hasPages) ==
    IF hasPages THEN PagesRouter ELSE IF hasApp THEN AppRouter ELSE ""

\* Variant of SelectRouter that falls back to the Pages Router instead of failing.
SelectRouterDefaulting(hasApp, hasPages) ==
    IF hasApp THEN AppRouter ELSE PagesRouter

\* The if / else-if / else chain on hasApp and hasPages; "" stands for the
\* branch that reports the error and calls process.exit(1).
SelectRouter(hasApp, hasPages) ==
    IF hasApp THEN AppRouter ELSE IF hasPages THEN PagesRouter ELSE ""

\* Variant of ProbeBase that always probes the top of the project.
ProbeBaseRoot(hasSrc) == <<>>

\* The directory the marker directories are probed in.
ProbeBase(hasSrc) == IF hasSrc THEN <<"src">> ELSE <<>>

\* Variant of detectProjectSetup that probes the markers under src and at the top.
detectProjectSetupBothLevels(f) ==
    LET hasSrc == ExistsSync(f, <<"src">>)
        hasApp == ExistsSync(f, <<"src", "app">>) \/ ExistsSync(f, <<"app">>)
        hasPages == ExistsSync(f, <<"src", "pages">>) \/ ExistsSync(f, <<"pages">>)
        routerType == SelectRouter(hasApp, hasPages)
    IN  [ok |-> routerType # "", routerType |-> routerType,
         hasSrc |-> hasSrc, hasPages |-> hasPages]

detectProjectSetup(f) ==
    LET hasSrc == ExistsSync(f, <<"src">>)
        hasApp == ExistsSync(f, ProbeBase(hasSrc) \o <<"app">>)
        hasPages == ExistsSync(f, ProbeBase(hasSrc) \o <<"pages">>)
        routerType == SelectRouter(hasApp, hasPages)
    IN  [ok |-> routerType # "", routerType |-> routerType,
         hasSrc |-> hasSrc, hasPages |-> hasPages]

\* What a failed detection prints and does: the error line, then
\* process.exit(1).
DetectFailLog(l) ==
    l \o <<Ev("detect", <<>>), Ev("error", <<"Neither App Router nor Pages Router found">>),
           Ev("exit", <<"1">>)>>

\* Variant of ProbedFs in which the probes leave a src directory behind.
ProbedFsCreatingSrc(f) == MkdirP(f, TRUE, <<"src">>)

\* The filesystem after a call of detectProjectSetup: the function only calls
\* fs.existsSync (and console.log, process.exit), so it is the one before.
ProbedFs(f) == f

-----------------------------------------------------------------------------
(* enhanceProject                                                          *)

\* Variant of folderStructures that lists the API directories of both
\* conventions.
folderStructuresBothApis(routerType, base) ==
    << Under(base, <<"app", "api">>), Under(base, <<"pages", "api">>),
       Under(base, <<"components", "ui">>), Under(base, <<"hooks">>),
       Under(base, <<"lib">>), Under(base, <<"services">>),
       Under(base, <<"styles">>), Under(base, <<"types">>), Under(base, <<"utils">>) >>

folderStructures(routerType, base) ==
    IF routerType = AppRouter
    THEN << Under(base, <<"components", "ui">>), Under(base, <<"hooks">>),
            Under(base, <<"lib">>), Under(base, <<"services">>),
            Under(base, <<"styles">>), Under(base, <<"types">>),
            Under(base, <<"utils">>), Under(base, <<"app", "api">>) >>
    ELSE << Under(base, <<"pages", "api">>), Under(base, <<"components", "ui">>),
            Under(base, <<"hooks">>), Under(base, <<"lib">>),
            Under(base, <<"services">>), Under(base, <<"styles">>),
            Under(base, <<"types">>), Under(base, <<"utils">>) >>

\* templates[routerType].lib, in Object.entries order: <<key, template>>.
libTemplates(routerType) ==
    << <<"api", "lib/api.template.ts">>, <<"constants", "lib/constants.template.ts">> >>

\* templates[routerType] without the lib entry, in Object.entries order.
pageTemplates(routerType) ==
    IF routerType = AppRouter
    THEN << <<"layout", "app/layout.template.tsx">>, <<"error", "app/error.template.tsx">>,
            <<"page", "app/page.template.tsx">> >>
    ELSE << <<"app", "pages/_app.template.tsx">>, <<"error", "pages/_error.template.tsx">>,
            <<"index", "pages/index.template.tsx">> >>

RouterDir(routerType) == IF routerType = AppRouter THEN "app" ELSE "pages"

\* Destinations of the template files of a convention: <<path, template>>.
fileMappings(routerType, base) ==
    [i \in 1..Len(libTemplates(routerType)) |->
        << JoinCwd(Under(base, <<"lib", libTemplates(routerType)[i][1] \o ".ts">>)),
           libTemplates(routerType)[i][2] >>]
    \o
    [i \in 1..Len(pageTemplates(routerType)) |->
        << JoinCwd(Under(base, <<RouterDir(routerType),
                                 pageTemplates(routerType)[i][1] \o ".tsx">>)),
           pageTemplates(routerType)[i][2] >>]

\* Variant of Materialize that reports a skip without writing anything.
MaterializeSkipping(st, w, out, tpl) == IF st.threw THEN st ELSE Say(st, "skip", out)

\* Variant of Materialize that writes the template over an existing destination.
MaterializeOverwriting(st, w, out, tpl) ==
    IF st.threw THEN st
    ELSE IF tpl \notin ShippedTemplates
    THEN [st EXCEPT !.threw = TRUE, !.log = Append(@, Ev("throw", out))]
    ELSE WriteFileSync(st, w, out, Advisory(TemplateContent(tpl)))

\* One template file: skipped when the destination exists; otherwise the
\* template is read (readFileSync throws when it is missing) and written
\* behind the advisory comment.
Materialize(st, w, out, tpl) ==
    IF st.threw THEN st
    ELSE IF ExistsSync(st.fs, out) THEN Say(st, "skip", out)
    ELSE IF tpl \notin ShippedTemplates
    THEN [st EXCEPT !.threw = TRUE, !.log = Append(@, Ev("throw", out))]
    ELSE WriteFileSync(st, w, out, Advisory(TemplateContent(tpl)))

RECURSIVE EnsureDirs(_, _, _, _)
\* forEach over a list of directories.
EnsureDirs(st, w, dirs, logsSkip) ==
    IF dirs = <<>> THEN st
    ELSE EnsureDirs(EnsureDir(st, w, JoinCwd(Head(dirs)), logsSkip), w, Tail(dirs), logsSkip)

RECURSIVE MaterializeAll(_, _, _)
\* forEach over a list of <<destination, template>>.
MaterializeAll(st, w, maps) ==
    IF maps = <<>> THEN st
    ELSE MaterializeAll(Materialize(st, w, Head(maps)[1], Head(maps)[2]), w, Tail(maps))

\* Variant of enhanceProject that starts the installer before scaffolding.
enhanceProjectInstallingFirst(st, w, routerType, base) ==
    LET s1 == EnsureDirs(Say(st, "exec", <<"npm install", "axios">>), w,
                         folderStructures(routerType, base), TRUE)
        s2 == MaterializeAll(s1, w, fileMappings(routerType, base))
    IN  IF s2.threw THEN s2 ELSE Say(s2, "done", <<"Project enhanced successfully!">>)

enhanceProject(st, w, routerType, base) ==
    LET s1 == EnsureDirs(st, w, folderStructures(routerType, base), TRUE)
        s2 == MaterializeAll(s1, w, fileMappings(routerType, base))
    IN  IF s2.threw THEN s2 ELSE Say(s2, "done", <<"Project enhanced successfully!">>)


-----------------------------------------------------------------------------
(* The project directory before the first invocation, and the user's own   *)
(* edits between invocations.                                              *)

Markers == { <<"app">>, <<"pages">>, <<"src", "app">>, <<"src", "pages">> }

\* A project directory: optionally a manifest, a src directory, and any of
\* the router directories at the top level or under src.
ProjectFs(hasPkg, hasSrc, markers) ==
    [p \in {<<>>} \cup (IF hasPkg THEN {<<"package.json">>} ELSE {})
                  \cup (IF hasSrc THEN {<<"src">>} ELSE {}) \cup markers
       |-> IF p = <<"package.json">> THEN FileNode(<<"{}">>) ELSE DirNode]

InitialProjects ==
    { ProjectFs(t[1], t[2], t[3]) :
        t \in { u \in BOOLEAN \X BOOLEAN \X (SUBSET Markers) :
                   \A q \in u[3] : Head(q) = "src" => u[2] } }

UserContent == <<"user">>

NoArgs == [moduleNames |-> <<>>, withApi |-> FALSE, withRedux |-> FALSE,
           name |-> "", dir |-> "", withTests |-> FALSE]

NoAnswers == [useSrc |-> FALSE, createSrc |-> FALSE, sliceNames |-> <<>>,
              subRoutes |-> <<>>, envType |-> "", customEnvFile |-> "",
              shouldAppend |-> FALSE, envVariables |-> <<>>,
              targetDirectory |-> "", newDirectory |-> "", componentName |-> "",
              shouldContinue |-> FALSE, installPrettierPlugin |-> FALSE]

Running == -1

\* The state before the first invocation, for a set of project directories
\* and of values of rootWritable.
InitWith(projects, writable) ==
    /\ fs \in projects
    /\ rootWritable \in writable
    /\ pc = "idle"
    /\ cmd = ""
    /\ exitCode = Running
    /\ log = <<>>
    /\ fs0 = fs
    /\ runs = 0
    /\ edits = 0
    /\ detectedSetup = NoSetup
    /\ baseFolder = ""
    /\ args = NoArgs
    /\ todo = <<>>
    /\ answers = NoAnswers
    /\ fsPre = fs

\* No command is running: the shell is ready for the next invocation.
AtShell == pc \in {"idle", "done"}

\* The user writes one of the files `paths` of the project by hand (creating
\* its directories) while no command runs.
UserEdit(paths) ==
    /\ AtShell
    /\ edits < MaxEdits
    /\ runs < MaxRuns
    /\ \E p \in paths :
          /\ ~IsDir(fs, p)
          /\ CanMkdir(fs, TRUE, Parent(p))
          /\ fs' = Put(MkdirP(fs, TRUE, Parent(p)), p, FileNode(UserContent))
    /\ edits' = edits + 1
    /\ pc' = "idle"
    /\ cmd' = ""
    /\ exitCode' = Running
    /\ log' = <<>>
    /\ fs0' = fs'
    /\ fsPre' = fs'
    /\ detectedSetup' = NoSetup
    /\ baseFolder' = ""
    /\ args' = NoArgs
    /\ todo' = <<>>
    /\ answers' = NoAnswers
    /\ UNCHANGED <<rootWritable, runs>>

BothBases(paths) == { b \o p : b \in {<<>>, <<"src">>}, p \in paths }

\* A new process starts running command c.
Start(c) ==
    /\ AtShell
    /\ runs < MaxRuns
    /\ runs' = runs + 1
    /\ cmd' = c
    /\ fs0' = fs
    /\ UNCHANGED <<rootWritable, edits>>

\* The process ends with status code.
Finish(code) ==
    /\ pc' = "done"
    /\ exitCode' = code

\* installCommand: yarn when a yarn.lock is present, npm otherwise.
InstallCommand(f) == IF ExistsSync(f, <<"yarn.lock">>) THEN "yarn add" ELSE "npm install"

\* What the external package manager leaves behind: nothing the commands read
\* when it fails, the node_modules directory when it succeeds.
AfterInstall(f, code) == IF code = 0 THEN MkdirP(f, TRUE, <<"node_modules">>) ELSE f

ResultCodes == {0, 1}

-----------------------------------------------------------------------------
(* add                                                                     *)

\* After the manifest check fails the handler returns: the process ends
\* normally.
MissingManifestExit == 0

\* The action of "add" up to its first prompt: manifest check, detection.
AddBegin ==
    /\ Start("add")
    /\ args' = NoArgs /\ answers' = NoAnswers /\ todo' = <<>> /\ baseFolder' = ""
    /\ fs' = (IF ExistsSync(fs, <<"package.json">>) THEN ProbedFs(fs) ELSE fs)
    /\ fsPre' = fs'
    /\ IF ~ExistsSync(fs, <<"package.json">>)
       THEN /\ log' = <<Ev("error", <<"No package.json found">>)>>
            /\ detectedSetup' = NoSetup
            /\ Finish(MissingManifestExit)
       ELSE LET d == detectProjectSetup(fs) IN
            IF ~d.ok
            THEN /\ log' = DetectFailLog(<<>>)
                 /\ detectedSetup' = NoSetup
                 /\ Finish(1)
            ELSE /\ log' = <<Ev("detect", <<>>)>>
                 /\ detectedSetup' = d
                 /\ pc' = "add_prompt"
                 /\ exitCode' = Running

\* const baseFolder = detectedSetup.hasSrc || answers.createSrc ? "src" : ""
AddBaseFolder(hasSrc, createSrc) == IF hasSrc \/ createSrc THEN "src" ELSE ""

\* The prompts of "add" are answered; the scaffold runs; the installer is
\* started (shell.exec blocks until it ends).
AddPrompt ==
    /\ pc = "add_prompt"
    /\ \E useSrc \in BOOLEAN, createSrc \in BOOLEAN :
          /\ useSrc => ~createSrc      \* createSrc is asked only when !useSrc
          /\ answers' = [answers EXCEPT !.useSrc = useSrc, !.createSrc = createSrc]
          /\ baseFolder' = AddBaseFolder(detectedSetup.hasSrc, createSrc)
          /\ LET asked == log \o <<Ev("prompt", <<"useSrc">>)>>
                          \o (IF useSrc THEN <<>> ELSE <<Ev("prompt", <<"createSrc">>)>>)
                 st == enhanceProject(St(fs, asked), rootWritable,
                                      detectedSetup.routerType, baseFolder')
             IN  IF st.threw
                 THEN /\ fs' = st.fs /\ log' = st.log /\ fsPre' = fsPre
                      /\ Finish(1)
                 ELSE /\ fs' = st.fs
                      /\ fsPre' = st.fs
                      /\ log' = Append(st.log, Ev("exec", <<InstallCommand(st.fs), "axios">>))
                      /\ pc' = "add_install"
                      /\ exitCode' = Running
    /\ UNCHANGED <<rootWritable, cmd, fs0, runs, edits, detectedSetup, args, todo>>

\* Variant of InstallDone that restores the filesystem when the installer fails.
InstallDoneRollingBack(f, before, code) == IF code = 0 THEN AfterInstall(f, code) ELSE before

\* What a handler does once the installer has ended with `code`: it reports
\* success or failure and returns.
InstallDone(f, before, code) == AfterInstall(f, code)

AddInstall ==
    /\ pc = "add_install"
    /\ \E code \in ResultCodes :
          /\ fs' = InstallDone(fs, fs0, code)
          /\ log' = Append(log, Ev(IF code = 0 THEN "installed" ELSE "install-error",
                                   <<"axios">>))
    /\ Finish(0)
    /\ UNCHANGED <<rootWritable, cmd, fs0, runs, edits, detectedSetup, baseFolder,
                   args, todo, answers, fsPre>>

\* Files of the scaffold the user may have written by hand.
AddEditable ==
    BothBases({ <<"lib", "api.ts">>, <<"lib", "constants.ts">>,
                <<"app", "layout.tsx">>, <<"app", "page.tsx">>,
                <<"pages", "app.tsx">>, <<"pages", "index.tsx">> })
    \cup { <<"yarn.lock">> }

AddUserEdit == UserEdit(AddEditable)

InitAdd == InitWith(InitialProjects, {FALSE})

NextAdd == AddUserEdit \/ AddBegin \/ AddPrompt \/ AddInstall

SpecAdd == InitAdd /\ [][NextAdd]_vars


-----------------------------------------------------------------------------
(* add-redux                                                               *)

NL == "\n"

storeDir(base) == JoinCwd(Under(base, <<"store">>))

sliceDir(base) == storeDir(base) \o <<"slices">>

typesDir(base) == JoinCwd(Under(base, <<"types">>))

storePath(base) == storeDir(base) \o <<"index.ts">>

initialStoreContent ==
    << "// Redux store setup", NL,
       "import { configureStore } from '@reduxjs/toolkit';", NL, NL,
       "export const store = configureStore({", NL, "  reducer: {},", NL, "});", NL >>

\* The slice file of `slice` (a token sequence).
sliceContent(slice) ==
    << "import { createSlice } from \"@reduxjs/toolkit\";", NL,
       "import { " \o Str(capitalizeFirstLetter(slice)) \o "State } from \"../../types/"
           \o Str(slice) \o "\";", NL, NL,
       "const " \o Str(slice) \o "Slice = createSlice({ name: \"" \o Str(slice) \o "\" });", NL,
       "export default reducer;", NL >>

typeContent(slice) ==
    << "export interface " \o Str(capitalizeFirstLetter(slice)) \o "State {", NL,
       "  data: any;", NL, "}" >>

RECURSIVE JoinLines(_)
\* Array.prototype.join("\n")
JoinLines(ls) ==
    IF ls = <<>> THEN <<>>
    ELSE IF Len(ls) = 1 THEN <<Head(ls)>>
    ELSE <<Head(ls), NL>> \o JoinLines(Tail(ls))

reducerImport(slice) ==
    "import " \o Str(slice) \o "Reducer from './slices/" \o Str(slice) \o "Slice';"

reducerMapping(slice) == "  " \o Str(slice) \o ": " \o Str(slice) \o "Reducer,"

\* The aggregator store/index.ts for the default unit and the units named in
\* this invocation.
storeContent(additionalSlices) ==
    LET all == <<(<<"general">>)>> \o additionalSlices IN
    << "// Redux store setup", NL,
       "import { configureStore } from '@reduxjs/toolkit';", NL, NL >>
    \o JoinLines([i \in 1..Len(all) |-> reducerImport(all[i])])
    \o << NL, NL, "export const store = configureStore({", NL, "  reducer: {", NL >>
    \o JoinLines([i \in 1..Len(all) |-> reducerMapping(all[i])])
    \o << NL, "  },", NL, "});", NL >>

\* setupRedux up to its prompt: the directories, the initial store file, the
\* default unit and its type.
setupReduxBeforePrompt(st, w, base) ==
    LET s1 == EnsureDirs(st, w, <<storeDir(base), sliceDir(base), typesDir(base)>>, FALSE)
        s2 == WriteIfAbsent(s1, w, storePath(base), initialStoreContent, FALSE)
        s3 == WriteIfAbsent(s2, w, sliceDir(base) \o <<"generalSlice.ts">>,
                            sliceContent(<<"general">>), FALSE)
    IN  WriteIfAbsent(s3, w, typesDir(base) \o <<"general.d.ts">>,
                      typeContent(<<"general">>), FALSE)

RECURSIVE AddSlices(_, _, _, _)
\* additionalSlices.forEach: the slice file and the type file of each name.
AddSlices(st, w, base, slices) ==
    IF slices = <<>> THEN st
    ELSE LET s1 == WriteIfAbsent(st, w, sliceDir(base) \o <<Str(Head(slices)) \o "Slice.ts">>,
                                 sliceContent(Head(slices)), TRUE)
             s2 == WriteIfAbsent(s1, w, typesDir(base) \o <<Str(Head(slices)) \o ".d.ts">>,
                                 typeContent(Head(slices)), TRUE)
         IN  AddSlices(s2, w, base, Tail(slices))

\* sliceNames ? sliceNames.split(",").map(trim).filter(nonempty) : []
additionalSlicesOf(sliceNames) == IF sliceNames = <<>> THEN <<>> ELSE ParseNames(sliceNames)

\* setupRedux after its prompt, up to the call of the installer.
setupReduxAfterPrompt(st, w, base, sliceNames) ==
    LET s1 == AddSlices(st, w, base, additionalSlicesOf(sliceNames))
        s2 == WriteFileSync(s1, w, storePath(base), storeContent(additionalSlicesOf(sliceNames)))
    IN  IF s2.threw THEN s2
        ELSE Say(s2, "exec", <<InstallCommand(s2.fs), "@reduxjs/toolkit", "react-redux">>)

\* What the user may type at the slice-names prompt.
SliceNameInputs ==
    { <<>>, <<"a">>, <<"a", ",", " ", "b">>, <<" ">>, <<"b", ",">>, <<"a", ",", "a">> }

\* The action of "add-redux" up to its prompt: detection, then the first part
\* of setupRedux.
ReduxBegin ==
    /\ Start("add-redux")
    /\ args' = NoArgs /\ answers' = NoAnswers /\ todo' = <<>>
    /\ LET d == detectProjectSetup(fs) IN
       IF ~d.ok
       THEN /\ log' = DetectFailLog(<<>>)
            /\ detectedSetup' = NoSetup
            /\ baseFolder' = ""
            /\ fs' = ProbedFs(fs) /\ fsPre' = fs'
            /\ Finish(1)
       ELSE LET base == IF d.hasSrc THEN "src" ELSE ""
                st == setupReduxBeforePrompt(St(ProbedFs(fs), <<Ev("detect", <<>>)>>),
                                             rootWritable, base)
            IN  /\ detectedSetup' = d
                /\ baseFolder' = base
                /\ fs' = st.fs /\ fsPre' = st.fs
                /\ log' = st.log
                /\ IF st.threw THEN Finish(1)
                   ELSE pc' = "redux_prompt" /\ exitCode' = Running

ReduxPrompt ==
    /\ pc = "redux_prompt"
    /\ \E sliceNames \in SliceNameInputs :
          /\ answers' = [answers EXCEPT !.sliceNames = sliceNames]
          /\ LET st == setupReduxAfterPrompt(
                           St(fs, Append(log, Ev("prompt", <<"sliceNames">>))),
                           rootWritable, baseFolder, sliceNames)
             IN  /\ fs' = st.fs /\ fsPre' = st.fs
                 /\ log' = st.log
                 /\ IF st.threw THEN Finish(1)
                    ELSE pc' = "redux_install" /\ exitCode' = Running
    /\ UNCHANGED <<rootWritable, cmd, fs0, runs, edits, detectedSetup, baseFolder,
                   args, todo>>

ReduxInstall ==
    /\ pc = "redux_install"
    /\ \E code \in ResultCodes :
          /\ fs' = InstallDone(fs, fs0, code)
          /\ log' = Append(log, Ev(IF code = 0 THEN "installed" ELSE "install-error",
                                   <<"@reduxjs/toolkit", "react-redux">>))
    /\ Finish(0)
    /\ UNCHANGED <<rootWritable, cmd, fs0, runs, edits, detectedSetup, baseFolder,
                   args, todo, answers, fsPre>>

ReduxEditable ==
    BothBases({ <<"store", "index.ts">>, <<"store", "slices", "generalSlice.ts">>,
                <<"store", "slices", "aSlice.ts">>, <<"types", "a.d.ts">> })

ReduxUserEdit == UserEdit(ReduxEditable)

InitRedux == InitWith(InitialProjects, {FALSE})

NextRedux == ReduxUserEdit \/ ReduxBegin \/ ReduxPrompt \/ ReduxInstall

SpecRedux == InitRedux /\ [][NextRedux]_vars


-----------------------------------------------------------------------------
(* add-module                                                              *)

\* `${baseFolder}/app/(${moduleName})` or `${baseFolder}/pages/${moduleName}`
moduleFolderPath(routerType, base, moduleName) ==
    IF routerType = AppRouter
    THEN Under(base, <<"app", "(" \o Str(moduleName) \o ")">>)
    ELSE Under(base, <<"pages", Str(moduleName)>>)

\* moduleName.toLowerCase() === "auth"
isAuthModule(moduleName) == Str(ToLowerCase(moduleName)) = "auth"

AuthSubRoutes == << <<"login">>, <<"register">> >>

\* Variant of subRouteNamesOf that takes the sub-routes of every module from the answer.
subRouteNamesFromAnswer(moduleName, subRoutes) == ParseNames(subRoutes)

\* The sub-route names of a module: the fixed pair for the reserved name,
\* the parsed answer otherwise.
subRouteNamesOf(moduleName, subRoutes) ==
    IF isAuthModule(moduleName) THEN AuthSubRoutes ELSE ParseNames(subRoutes)

authTemplates(routerType, route) ==
    IF routerType = AppRouter
    THEN "app/(auth)/" \o Str(route) \o "/page.template.tsx"
    ELSE "pages/auth/" \o Str(route) \o "/page.template.tsx"

defaultPageContent(route) ==
    << "// TODO: Customize this " \o Str(route) \o " page", NL, NL,
       "export default function " \o Str(capitalizeFirstLetter(route)) \o "Page() {", NL,
       "  return <div>" \o Str(capitalizeFirstLetter(route)) \o " Page</div>;", NL, "}" >>

\* One sub-route: its directory, then its page file, written whether or not
\* it exists (for the reserved module only when the template is shipped).
GenerateSubRoute(st, w, routerType, folderPath, auth, route) ==
    LET routePath == folderPath \o <<Str(route)>>
        filePath == routePath \o <<"page.tsx">>
        s1 == EnsureDir(st, w, JoinCwd(routePath), FALSE)
    IN  IF auth /\ route \in Range(AuthSubRoutes)
        THEN IF authTemplates(routerType, route) \in ShippedTemplates
             THEN WriteFileSync(s1, w, JoinCwd(filePath),
                                TemplateContent(authTemplates(routerType, route)))
             ELSE IF s1.threw THEN s1 ELSE Say(s1, "error", <<"Template missing">>)
        ELSE WriteFileSync(s1, w, JoinCwd(filePath), defaultPageContent(route))

RECURSIVE GenerateSubRoutes(_, _, _, _, _, _)
GenerateSubRoutes(st, w, routerType, folderPath, auth, routes) ==
    IF routes = <<>> THEN st
    ELSE GenerateSubRoutes(GenerateSubRoute(st, w, routerType, folderPath, auth, Head(routes)),
                           w, routerType, folderPath, auth, Tail(routes))

\* The one method the generated handler answers with success.
StubMethod == "POST"

\* The request-handler stub of a sub-route.
apiContent(route) ==
    << "// API handler for " \o Str(route), NL, NL,
       "export default function handler(req, res) {", NL,
       "  if (req.method === ", StubMethod, ") {", NL,
       "    res.status(", "200", ").json({ message: \""
           \o Str(capitalizeFirstLetter(route)) \o " successful!\" });", NL,
       "  } else {", NL,
       "    res.status(", "405", ").json({ error: \"Method not allowed\" });", NL,
       "  }", NL, "}" >>

\* The status a generated handler with text c answers to a request method.
HandlerStatus(c, method) == IF method = c[7] THEN c[11] ELSE c[17]

\* `${baseFolder}/${app/api | pages/api}/${moduleName}`, used as written (it
\* is not joined with process.cwd()).
apiDir(routerType, base, moduleName) ==
    Under(base, <<RouterDir(routerType), "api", Str(moduleName)>>)

RECURSIVE GenerateApi(_, _, _, _)
GenerateApi(st, w, dir, routes) ==
    IF routes = <<>> THEN st
    ELSE GenerateApi(WriteIfAbsent(st, w, dir \o <<Str(Head(routes)) \o ".ts">>,
                                   apiContent(Head(routes)), TRUE),
                     w, dir, Tail(routes))

moduleSliceContent(moduleName) ==
    << "import { createSlice } from \"@reduxjs/toolkit\";", NL, NL,
       "const " \o Str(moduleName) \o "Slice = createSlice({ name: \""
           \o Str(moduleName) \o "\" });", NL,
       "export default " \o Str(moduleName) \o "Slice.reducer;", NL >>

\* `${baseFolder}/store/slices`, used as written.
moduleSliceDir(base) == Under(base, <<"store", "slices">>)

\* Variant of AddModule that ends the command at a module without a valid
\* sub-route name.
AddModuleAborting(st, w, setup, base, options, moduleName, subRoutes) ==
    LET names == subRouteNamesOf(moduleName, subRoutes)
        folderPath == moduleFolderPath(setup.routerType, base, moduleName)
        s1 == EnsureDir(st, w, JoinCwd(folderPath), FALSE)
        s2 == GenerateSubRoutes(s1, w, setup.routerType, folderPath,
                                isAuthModule(moduleName), names)
    IN  IF names = <<>>
        THEN [st EXCEPT !.threw = TRUE,
                        !.log = Append(@, Ev("error", <<"No valid sub-route names for "
                                                         \o Str(moduleName)>>))]
        ELSE IF s2.threw THEN s2
        ELSE Say(s2, "added", <<Str(moduleName)>>)

\* One iteration of the loop over the module names, after its prompt.
AddModule(st, w, setup, base, options, moduleName, subRoutes) ==
    LET names == subRouteNamesOf(moduleName, subRoutes)
        folderPath == moduleFolderPath(setup.routerType, base, moduleName)
        s1 == EnsureDir(st, w, JoinCwd(folderPath), FALSE)
        s2 == GenerateSubRoutes(s1, w, setup.routerType, folderPath,
                                isAuthModule(moduleName), names)
        dir == apiDir(setup.routerType, base, moduleName)
        s3 == IF options.withApi
              THEN GenerateApi(EnsureDir(s2, w, dir, FALSE), w, dir, names)
              ELSE s2
        s4 == IF options.withRedux
              THEN WriteIfAbsent(EnsureDir(s3, w, moduleSliceDir(base), FALSE), w,
                                 moduleSliceDir(base) \o <<Str(moduleName) \o "Slice.ts">>,
                                 moduleSliceContent(moduleName), TRUE)
              ELSE s3
    IN  IF names = <<>>
        THEN Say(st, "error", <<"No valid sub-route names for " \o Str(moduleName)>>)
        ELSE IF s4.threw THEN s4
        ELSE Say(s4, "added", <<Str(moduleName)>>)

\* The <moduleNames> argument of the command line.
ModuleNameInputs ==
    { <<"auth">>, <<"Auth">>, <<" ", "m", " ">>, <<"m", ",", " ", "auth">>, <<",", " ">> }

\* What the user may type at the sub-routes prompt; the prompt accepts an
\* answer only when input.trim() !== "".
SubRouteTexts ==
    { <<"a">>, <<"a", ",", " ", "b">>, <<" ", "b", ",", ",", "a", " ">>,
      <<",", " ">>, <<"login">>, <<" ">> }

SubRouteInputs == { t \in SubRouteTexts : Trim(t) # <<>> }

\* The action of "add-module" up to the loop: detection, the module names.
ModuleBegin ==
    /\ Start("add-module")
    /\ answers' = NoAnswers
    /\ fs' = ProbedFs(fs) /\ fsPre' = fs'
    /\ \E names \in ModuleNameInputs, withApi \in BOOLEAN, withRedux \in BOOLEAN :
          /\ args' = [NoArgs EXCEPT !.moduleNames = names, !.withApi = withApi,
                                           !.withRedux = withRedux]
          /\ LET d == detectProjectSetup(fs) IN
             IF ~d.ok
             THEN /\ log' = DetectFailLog(<<>>)
                  /\ detectedSetup' = NoSetup
                  /\ baseFolder' = ""
                  /\ todo' = <<>>
                  /\ Finish(1)
             ELSE /\ detectedSetup' = d
                  /\ baseFolder' = IF d.hasSrc THEN "src" ELSE ""
                  /\ todo' = ParseNames(names)
                  /\ IF ParseNames(names) = <<>>
                     THEN /\ log' = <<Ev("detect", <<>>),
                                      Ev("error", <<"No valid module names provided.">>)>>
                          /\ Finish(0)
                     ELSE /\ log' = <<Ev("detect", <<>>)>>
                          /\ pc' = "module_loop"
                          /\ exitCode' = Running

\* One iteration of the loop: the prompt for the sub-routes (not asked for the
\* reserved module), then the directories and files of the module.
ModuleStep ==
    /\ pc = "module_loop"
    /\ todo # <<>>
    /\ \E subRoutes \in (IF isAuthModule(Head(todo)) THEN {<<>>} ELSE SubRouteInputs) :
          /\ answers' = [answers EXCEPT !.subRoutes = subRoutes]
          /\ LET asked == IF isAuthModule(Head(todo)) THEN log
                          ELSE Append(log, Ev("prompt", <<"subRoutes", Str(Head(todo))>>))
                 st == AddModule(St(fs, asked), rootWritable, detectedSetup, baseFolder,
                                 args, Head(todo), subRoutes)
             IN  /\ fs' = st.fs
                 /\ log' = st.log
                 /\ todo' = Tail(todo)
                 /\ IF st.threw THEN Finish(1)
                    ELSE IF Tail(todo) = <<>> THEN Finish(0)
                    ELSE pc' = "module_loop" /\ exitCode' = Running
    /\ UNCHANGED <<rootWritable, cmd, fs0, runs, edits, detectedSetup, baseFolder,
                   args, fsPre>>

ModuleEditable ==
    { <<"src", "app", "(m)", "a", "page.tsx">>, <<"pages", "m", "a", "page.tsx">>,
      <<"src", "app", "(auth)", "login", "page.tsx">> }

ModuleUserEdit == UserEdit(ModuleEditable)

\* Projects with a manifest whose router directories, if any, are where the
\* detector looks for them.
PlainProjects ==
    { f \in InitialProjects :
        /\ ExistsSync(f, <<"package.json">>)
        /\ ExistsSync(f, <<"src">>) => ~ExistsSync(f, <<"app">>) /\ ~ExistsSync(f, <<"pages">>) }

InitModule == InitWith(PlainProjects, BOOLEAN)

NextModule == ModuleUserEdit \/ ModuleBegin \/ ModuleStep

SpecModule == InitModule /\ [][NextModule]_vars


-----------------------------------------------------------------------------
(* add-env                                                                 *)

\* The values of the choices of the environment prompt.
EnvTypes == { ".env", ".env.development", ".env.production", "custom" }

\* File names the user may type for a custom environment file.
CustomEnvFiles == { ".env.staging", ".env" }

\* path.join(process.cwd(), envType or customEnvFile)
envFilePathOf(envType, customEnvFile) ==
    IF envType = "custom" THEN <<customEnvFile>> ELSE <<envType>>

\* Variant of envHeader that writes the header line twice.
envHeaderTwice(envType) == << "# " \o envType \o " Environment Variables", NL, "# " \o envType \o " Environment Variables", NL >>

\* `# ${envType} Environment Variables\n`
envHeader(envType) == << "# " \o envType \o " Environment Variables", NL >>

RECURSIVE formattedVariables(_)
\* variables.map((v) => `${v}\n`).join("")
formattedVariables(variables) ==
    IF variables = <<>> THEN <<>>
    ELSE <<Str(Head(variables)), NL>> \o formattedVariables(Tail(variables))

\* envVariables.split(",").map((pair) => pair.trim())
variablesOf(envVariables) == MapTrim(Split(envVariables))

\* Variant of AppendFileSync that replaces the content of the file.
AppendFileSyncTruncating(st, w, p, text) ==
    IF st.threw THEN st
    ELSE IF CanWrite(st.fs, w, p)
    THEN [st EXCEPT !.fs = Put(@, p, FileNode(text)), !.log = Append(@, Ev("append", p))]
    ELSE [st EXCEPT !.threw = TRUE, !.log = Append(@, Ev("throw", p))]

\* fs.appendFileSync(p, text): creates the file when it is missing.
AppendFileSync(st, w, p, text) ==
    IF st.threw THEN st
    ELSE IF CanWrite(st.fs, w, p)
    THEN [st EXCEPT !.fs = Put(@, p, FileNode((IF IsFile(@, p) THEN @[p].content ELSE <<>>)
                                               \o text)),
                    !.log = Append(@, Ev("append", p))]
    ELSE [st EXCEPT !.threw = TRUE, !.log = Append(@, Ev("throw", p))]

\* What the user may type at the variables prompt; the prompt accepts an
\* answer only when input.trim() is not empty.
EnvVariableTexts ==
    { <<"A=1">>, <<"A=1", ",", " ", "B=2">>, <<" ", "B=2", ",", "A=1", " ">>,
      <<"A=1", ",", ",", "B=2">>, <<" ">> }

EnvVariableInputs == { t \in EnvVariableTexts : Trim(t) # <<>> }

\* The action of "add-env" up to the prompt that follows the choice of the
\* file: the file is created with its header when it does not exist.
EnvBegin ==
    /\ Start("add-env")
    /\ args' = NoArgs /\ todo' = <<>> /\ detectedSetup' = NoSetup /\ baseFolder' = ""
    /\ \E envType \in EnvTypes :
       \E customEnvFile \in (IF envType = "custom" THEN CustomEnvFiles ELSE {""}) :
          LET path == envFilePathOf(envType, customEnvFile)
              asked == <<Ev("prompt", <<"envType">>)>>
                       \o (IF envType = "custom" THEN <<Ev("prompt", <<"customEnvFile">>)>>
                           ELSE <<>>)
              st == WriteFileSync(St(fs, asked), rootWritable, path, envHeader(envType))
          IN  /\ answers' = [NoAnswers EXCEPT !.envType = envType,
                                              !.customEnvFile = customEnvFile]
              /\ IF ExistsSync(fs, path)
                 THEN /\ fs' = fs /\ fsPre' = fs
                      /\ log' = asked
                      /\ pc' = "env_append"
                      /\ exitCode' = Running
                 ELSE /\ fs' = st.fs /\ fsPre' = st.fs
                      /\ log' = st.log
                      /\ IF st.threw THEN Finish(1)
                         ELSE pc' = "env_variables" /\ exitCode' = Running

\* Variant of EnvConfirm that goes on to the variables prompt whatever the answer.
EnvConfirmAppending ==
    /\ pc = "env_append"
    /\ \E shouldAppend \in BOOLEAN :
          /\ answers' = [answers EXCEPT !.shouldAppend = shouldAppend]
          /\ log' = Append(log, Ev("prompt", <<"shouldAppend">>))
          /\ pc' = "env_variables" /\ exitCode' = Running
    /\ UNCHANGED <<fs, rootWritable, cmd, fs0, runs, edits, detectedSetup, baseFolder,
                   args, todo, fsPre>>

\* The user answers whether to add variables to the existing file.
EnvConfirm ==
    /\ pc = "env_append"
    /\ \E shouldAppend \in BOOLEAN :
          /\ answers' = [answers EXCEPT !.shouldAppend = shouldAppend]
          /\ log' = Append(log, Ev("prompt", <<"shouldAppend">>))
          /\ IF shouldAppend THEN pc' = "env_variables" /\ exitCode' = Running
             ELSE Finish(0)
    /\ UNCHANGED <<fs, rootWritable, cmd, fs0, runs, edits, detectedSetup, baseFolder,
                   args, todo, fsPre>>

\* The user enters the variables; they are appended to the file.
EnvVariables ==
    /\ pc = "env_variables"
    /\ \E envVariables \in EnvVariableInputs :
          /\ answers' = [answers EXCEPT !.envVariables = envVariables]
          /\ LET st == AppendFileSync(St(fs, Append(log, Ev("prompt", <<"envVariables">>))),
                                      rootWritable,
                                      envFilePathOf(answers.envType, answers.customEnvFile),
                                      formattedVariables(variablesOf(envVariables)))
             IN  /\ fs' = st.fs
                 /\ log' = st.log
                 /\ IF st.threw THEN Finish(1) ELSE Finish(0)
    /\ UNCHANGED <<rootWritable, cmd, fs0, runs, edits, detectedSetup, baseFolder,
                   args, todo, fsPre>>

EnvEditable == { <<".env">>, <<".env.staging">>, <<".env.production">> }

EnvUserEdit == UserEdit(EnvEditable)

InitEnv == InitWith(PlainProjects, {FALSE})

NextEnv == EnvUserEdit \/ EnvBegin \/ EnvConfirm \/ EnvVariables

SpecEnv == InitEnv /\ [][NextEnv]_vars

-----------------------------------------------------------------------------
(* add-component                                                           *)

\* fs.existsSync("src") ? "src/components" : "components"
componentsFolder(f) == IF ExistsSync(f, <<"src">>) THEN "src/components" ELSE "components"

\* The path the relative base folder of add-component names.
ComponentsPath(base) ==
    IF base = "src/components" THEN <<"src", "components">> ELSE <<"components">>

\* readdirSync(baseFolder, { withFileTypes: true }).filter(isDirectory).map(name)
directories(f, base) ==
    {p[Len(p)] : p \in {q \in Children(f, ComponentsPath(base)) : IsDir(f, q)}}

CreateNewDirectory == "Create new directory"

\* path.join(baseFolder, options.dir || "", componentName)
componentDir(base, dir, componentName) ==
    ComponentsPath(base) \o (IF dir = "" THEN <<>> ELSE <<dir>>) \o <<componentName>>

tsxContent(componentName) ==
    << "// TODO: Customize this component", NL, NL,
       "import styles from \"./" \o componentName \o ".module.css\";", NL, NL,
       "export default function " \o componentName \o "() {", NL,
       "  return <div className={styles." \o LowerToken(componentName) \o "}>"
           \o componentName \o " Component</div>;", NL, "}" >>

cssContent(componentName) ==
    << "/* Styles for " \o componentName \o " Component */", NL, NL,
       "." \o LowerToken(componentName) \o " {", NL,
       "  background-color: #f4f4f4;", NL, "  padding: 16px;", NL,
       "  border-radius: 8px;", NL, "  box-shadow: 0 4px 6px rgba(0, 0, 0, 0.1);", NL, "}" >>

testContent(componentName) ==
    << "import { render } from \"@testing-library/react\";", NL,
       "import " \o componentName \o " from \"./" \o componentName \o "\";", NL, NL,
       "test(\"renders " \o componentName \o " component\", () => {", NL,
       "  const { getByText } = render(<" \o componentName \o " />);", NL,
       "  expect(getByText(\"" \o componentName \o " Component\")).toBeInTheDocument();", NL,
       "});" >>

\* Variant of TestFileWanted that always asks for the test file.
TestFileAlways(withTests) == TRUE

\* if (options.withTests)
TestFileWanted(withTests) == withTests

\* Variant of CreateComponent that writes the files also into an existing
\* component directory.
CreateComponentRefreshing(st, w, base, dir, componentName, withTests) ==
    LET d == componentDir(base, dir, componentName)
        s0 == [st EXCEPT !.fs = MkdirP(@, w, d), !.log = Append(@, Ev("mkdir", d))]
        s1 == WriteFileSync(s0, w, d \o <<componentName \o ".tsx">>, tsxContent(componentName))
        s2 == WriteFileSync(s1, w, d \o <<componentName \o ".module.css">>,
                            cssContent(componentName))
        s3 == IF withTests
              THEN WriteFileSync(s2, w, d \o <<componentName \o ".test.tsx">>,
                                 testContent(componentName))
              ELSE s2
    IN  IF s3.threw THEN s3 ELSE Say(s3, "done", d)

\* The component directory and its files, when the directory does not exist;
\* a notice otherwise.
CreateComponent(st, w, base, dir, componentName, withTests) ==
    LET d == componentDir(base, dir, componentName) IN
    IF ExistsSync(st.fs, d) THEN Say(st, "skip", d)
    ELSE LET s0 == [st EXCEPT !.fs = MkdirP(@, w, d), !.log = Append(@, Ev("mkdir", d))]
             s1 == WriteFileSync(s0, w, d \o <<componentName \o ".tsx">>,
                                 tsxContent(componentName))
             s2 == WriteFileSync(s1, w, d \o <<componentName \o ".module.css">>,
                                 cssContent(componentName))
             s3 == IF TestFileWanted(withTests)
                   THEN WriteFileSync(s2, w, d \o <<componentName \o ".test.tsx">>,
                                      testContent(componentName))
                   ELSE s2
         IN  IF s3.threw THEN s3 ELSE Say(s3, "done", d)

\* Values of --name and --dir ("" when the option is not given), and what
\* the user may type at the prompts.
NameOptions == { "", "Btn" }

DirOptions == { "", "ui" }

NewDirectoryInputs == { "ui", "forms" }

ComponentNameInputs == { "Btn", "Card" }

\* The action of "add-component" up to the choice of the directory: the
\* options, the base folder and its check.
ComponentBegin ==
    /\ Start("add-component")
    /\ answers' = NoAnswers /\ todo' = <<>> /\ detectedSetup' = NoSetup
    /\ fs' = fs /\ fsPre' = fs
    /\ baseFolder' = componentsFolder(fs)
    /\ \E name \in NameOptions, dir \in DirOptions, withTests \in BOOLEAN :
          args' = [NoArgs EXCEPT !.name = name, !.dir = dir, !.withTests = withTests]
    /\ IF ~ExistsSync(fs, ComponentsPath(componentsFolder(fs)))
       THEN /\ log' = <<Ev("error", <<componentsFolder(fs) \o " folder does not exist.">>)>>
            /\ Finish(0)
       ELSE /\ log' = <<>>
            /\ pc' = "component_select" /\ exitCode' = Running

\* The directory is taken from --dir or chosen at the prompt; a new directory
\* is asked for and created when the user chooses so.
ComponentSelect ==
    /\ pc = "component_select"
    /\ IF args.dir # ""
       THEN /\ UNCHANGED <<fs, fsPre, args, answers, log>>
       ELSE \E targetDirectory \in directories(fs, baseFolder) \cup {CreateNewDirectory} :
               IF targetDirectory = CreateNewDirectory
               THEN \E newDirectory \in NewDirectoryInputs :
                       LET st == EnsureDir(St(fs, log \o <<Ev("prompt", <<"targetDirectory">>),
                                                          Ev("prompt", <<"newDirectory">>)>>),
                                           rootWritable,
                                           ComponentsPath(baseFolder) \o <<newDirectory>>, FALSE)
                       IN  /\ answers' = [answers EXCEPT !.targetDirectory = targetDirectory,
                                                          !.newDirectory = newDirectory]
                           /\ args' = [args EXCEPT !.dir = newDirectory]
                           /\ fs' = st.fs /\ fsPre' = st.fs
                           /\ log' = st.log
               ELSE /\ answers' = [answers EXCEPT !.targetDirectory = targetDirectory]
                    /\ log' = Append(log, Ev("prompt", <<"targetDirectory">>))
                    /\ UNCHANGED <<fs, fsPre, args>>
    /\ pc' = "component_name"
    /\ UNCHANGED <<rootWritable, cmd, exitCode, fs0, runs, edits, detectedSetup, baseFolder,
                   todo>>

\* The name is taken from --name or asked for; the component is created.
ComponentName ==
    /\ pc = "component_name"
    /\ \E componentName \in (IF args.name # "" THEN {args.name} ELSE ComponentNameInputs) :
          LET asked == IF args.name # "" THEN log
                       ELSE Append(log, Ev("prompt", <<"componentName">>))
              st == CreateComponent(St(fs, asked), rootWritable, baseFolder, args.dir,
                                    componentName, args.withTests)
          IN  /\ answers' = [answers EXCEPT !.componentName =
                                 IF args.name # "" THEN "" ELSE componentName]
              /\ fs' = st.fs
              /\ log' = st.log
              /\ IF st.threw THEN Finish(1) ELSE Finish(0)
    /\ UNCHANGED <<rootWritable, cmd, fs0, runs, edits, detectedSetup, baseFolder,
                   args, todo, fsPre>>

\* Files of components the user may already have.
ComponentEditable ==
    { <<"components", "Btn", "Btn.tsx">>, <<"src", "components", "ui", "Btn", "Btn.tsx">>,
      <<"components", "ui", "index.ts">> }

ComponentUserEdit == UserEdit(ComponentEditable)

\* Projects with or without a src directory and a components folder.
ComponentProjects ==
    { MkdirP(ProjectFs(TRUE, hasSrc, {}), TRUE, d) :
        hasSrc \in BOOLEAN, d \in { <<>>, <<"components">>, <<"components", "ui">> } }
    \cup { MkdirP(ProjectFs(TRUE, TRUE, {}), TRUE, <<"src", "components">>) }

InitComponent == InitWith(ComponentProjects, {FALSE})

NextComponent == ComponentUserEdit \/ ComponentBegin \/ ComponentSelect \/ ComponentName

SpecComponent == InitComponent /\ [][NextComponent]_vars

-----------------------------------------------------------------------------
(* add-tailwind                                                            *)

\* path.join(process.cwd(), `${baseFolder}/styles`)
stylesDir(base) == JoinCwd(Under(base, <<"styles">>))

globalCSS(base) == stylesDir(base) \o <<"globals.css">>

tailwindConfig == <<"tailwind.config.js">>

\* `@tailwind base;\n@tailwind components;\n@tailwind utilities;`
TailwindDirectives ==
    << "@tailwind base;", NL, "@tailwind components;", NL, "@tailwind utilities;" >>

\* The content globs: the app glob is added when `${baseFolder}/app` exists
\* (the path is used as written, not joined with process.cwd()).
contentPaths(f, base) ==
    << "./pages/**/*.{js,ts,jsx,tsx}", "./components/**/*.{js,ts,jsx,tsx}" >>
    \o (IF ExistsSync(f, Under(base, <<"app">>))
        THEN << "./" \o base \o "/app/**/*.{js,ts,jsx,tsx}" >>
        ELSE <<>>)

tailwindConfigContent(paths) ==
    << "module.exports = {", NL, "  content: [" >> \o paths
    \o << "],", NL, "  theme: {", NL, "    extend: {},", NL, "  },", NL,
          "  plugins: [],", NL, "};" >>

\* What `npx tailwindcss init -p` leaves behind: the two configuration files
\* it generates when it succeeds and they are absent.
AfterTailwindInit(f, code) ==
    IF code # 0 THEN f
    ELSE LET f1 == IF ExistsSync(f, tailwindConfig) THEN f
                   ELSE Put(f, tailwindConfig, FileNode(<<"generated">>))
         IN  IF ExistsSync(f1, <<"postcss.config.js">>) THEN f1
             ELSE Put(f1, <<"postcss.config.js">>, FileNode(<<"generated">>))

\* Variant of EnsureGlobals that writes the directives over an existing file.
EnsureGlobalsRewriting(st, w, base) == WriteFileSync(st, w, globalCSS(base), TailwindDirectives)

\* globals.css is written with the directives when it does not exist, and
\* left alone (with a notice) when it does.
EnsureGlobals(st, w, base) ==
    IF st.threw THEN st
    ELSE IF ~ExistsSync(st.fs, globalCSS(base))
    THEN WriteFileSync(st, w, globalCSS(base), TailwindDirectives)
    ELSE Say(st, "skip", globalCSS(base))

\* The setup proper, from the installs to globals.css; installCode and
\* initCode are the results of the two external commands, which the handler
\* does not look at.
SetupTailwind(st, w, base, installCode, initCode) ==
    LET s1 == [st EXCEPT !.fs = AfterTailwindInit(AfterInstall(@, installCode), initCode),
                         !.log = @ \o << Ev("exec", <<InstallCommand(st.fs), "-D", "tailwindcss">>),
                                         Ev("exec", <<"npx tailwindcss init -p">>) >>]
        s2 == WriteFileSync(s1, w, tailwindConfig,
                            tailwindConfigContent(contentPaths(s1.fs, base)))
        s3 == EnsureDir(s2, w, stylesDir(base), FALSE)
    IN  EnsureGlobals(s3, w, base)

\* The action of "add-tailwind" up to its first prompt or, without an
\* existing configuration, up to the start of the setup.
TailwindBegin ==
    /\ Start("add-tailwind")
    /\ args' = NoArgs /\ answers' = NoAnswers /\ todo' = <<>> /\ detectedSetup' = NoSetup
    /\ baseFolder' = IF ExistsSync(fs, <<"src">>) THEN "src" ELSE ""
    /\ fs' = fs /\ fsPre' = fs
    /\ log' = <<>>
    /\ exitCode' = Running
    /\ pc' = IF ExistsSync(fs, tailwindConfig) THEN "tailwind_confirm" ELSE "tailwind_setup"

\* Variant of TailwindConfirm that goes on to the setup whatever the answer.
TailwindConfirmProceeding ==
    /\ pc = "tailwind_confirm"
    /\ \E shouldContinue \in BOOLEAN :
          /\ answers' = [answers EXCEPT !.shouldContinue = shouldContinue]
          /\ log' = Append(log, Ev("prompt", <<"shouldContinue">>))
          /\ pc' = "tailwind_setup" /\ exitCode' = Running
    /\ UNCHANGED <<fs, rootWritable, cmd, fs0, runs, edits, detectedSetup, baseFolder,
                   args, todo, fsPre>>

\* The user answers whether to reconfigure.
TailwindConfirm ==
    /\ pc = "tailwind_confirm"
    /\ \E shouldContinue \in BOOLEAN :
          /\ answers' = [answers EXCEPT !.shouldContinue = shouldContinue]
          /\ IF shouldContinue
             THEN /\ log' = Append(log, Ev("prompt", <<"shouldContinue">>))
                  /\ pc' = "tailwind_setup" /\ exitCode' = Running
             ELSE /\ log' = log \o << Ev("prompt", <<"shouldContinue">>),
                                      Ev("skipped", <<"Tailwind CSS setup">>) >>
                  /\ Finish(0)
    /\ UNCHANGED <<fs, rootWritable, cmd, fs0, runs, edits, detectedSetup, baseFolder,
                   args, todo, fsPre>>

\* The installs, the configuration file, the styles directory, globals.css.
TailwindSetup ==
    /\ pc = "tailwind_setup"
    /\ \E installCode \in ResultCodes, initCode \in ResultCodes :
          LET st == SetupTailwind(St(fs, log), rootWritable, baseFolder, installCode, initCode)
          IN  /\ fs' = st.fs
              /\ log' = st.log
              /\ IF st.threw THEN Finish(1)
                 ELSE pc' = "tailwind_prettier" /\ exitCode' = Running
    /\ UNCHANGED <<rootWritable, cmd, fs0, runs, edits, detectedSetup, baseFolder,
                   args, todo, answers, fsPre>>

\* The user answers whether to install the Prettier plugin.
TailwindPrettier ==
    /\ pc = "tailwind_prettier"
    /\ \E installPrettierPlugin \in BOOLEAN, code \in ResultCodes :
          /\ answers' = [answers EXCEPT !.installPrettierPlugin = installPrettierPlugin]
          /\ IF installPrettierPlugin
             THEN /\ fs' = AfterInstall(fs, code)
                  /\ log' = log \o << Ev("prompt", <<"installPrettierPlugin">>),
                                      Ev("exec", <<InstallCommand(fs), "-D",
                                                   "prettier-plugin-tailwindcss">>),
                                      Ev("done", <<"Tailwind CSS setup">>) >>
             ELSE /\ fs' = fs
                  /\ log' = log \o << Ev("prompt", <<"installPrettierPlugin">>),
                                      Ev("done", <<"Tailwind CSS setup">>) >>
    /\ Finish(0)
    /\ UNCHANGED <<rootWritable, cmd, fs0, runs, edits, detectedSetup, baseFolder,
                   args, todo, fsPre>>

\* Files of a Tailwind setup the user may already have.
TailwindEditable ==
    { <<"tailwind.config.js">>, <<"styles", "globals.css">>, <<"src", "styles", "globals.css">> }

TailwindUserEdit == UserEdit(TailwindEditable)

InitTailwind == InitWith(PlainProjects, {FALSE})

NextTailwind ==
    TailwindUserEdit \/ TailwindBegin \/ TailwindConfirm \/ TailwindSetup \/ TailwindPrettier

SpecTailwind == InitTailwind /\ [][NextTailwind]_vars

-----------------------------------------------------------------------------
(* Every command, from every project directory.                            *)

Init == InitWith(InitialProjects, BOOLEAN)

AnyUserEdit ==
    UserEdit(AddEditable \cup ReduxEditable \cup ModuleEditable \cup EnvEditable
             \cup ComponentEditable \cup TailwindEditable)

Next ==
    \/ AnyUserEdit
    \/ AddBegin \/ AddPrompt \/ AddInstall
    \/ ReduxBegin \/ ReduxPrompt \/ ReduxInstall
    \/ ModuleBegin \/ ModuleStep
    \/ EnvBegin \/ EnvConfirm \/ EnvVariables
    \/ ComponentBegin \/ ComponentSelect \/ ComponentName
    \/ TailwindBegin \/ TailwindConfirm \/ TailwindSetup \/ TailwindPrettier

Spec == Init /\ [][Next]_vars


-----------------------------------------------------------------------------
(* The commands that run the detector, without manual edits.               *)

InitDetector == InitWith(InitialProjects, {FALSE})

NextDetector ==
    \/ AddBegin \/ AddPrompt \/ AddInstall
    \/ ReduxBegin \/ ReduxPrompt \/ ReduxInstall
    \/ ModuleBegin \/ ModuleStep

SpecDetector == InitDetector /\ [][NextDetector]_vars

-----------------------------------------------------------------------------
(* Properties.                                                             *)

\* The detector has run in the current invocation ("add" runs it only when
\* the manifest exists).
DetectorRan ==
    /\ pc # "idle"
    /\ cmd \in {"add", "add-redux", "add-module"}
    /\ cmd = "add" => ExistsSync(fs0, <<"package.json">>)

\* Whether the marker directory `name` existed, when the invocation started,
\* where the detector looks: under src when src exists, else at the top.
Marker0(name) ==
    IF <<"src">> \in DOMAIN fs0 THEN <<"src", name>> \in DOMAIN fs0
    ELSE <<name>> \in DOMAIN fs0

LogOps == {log[i].op : i \in 1..Len(log)}

DetectionFailed ==
    /\ ~detectedSetup.ok
    /\ pc = "done"
    /\ exitCode = 1
    /\ "error" \in LogOps

\* C1: with only the app marker the detector returns the App Router
\* convention, with only the pages marker the Pages Router convention, and
\* with neither it fails with a configuration error and returns no setup.
C1_DetectorClassifies ==
    DetectorRan =>
        /\ (Marker0("app") /\ ~Marker0("pages")) =>
               detectedSetup.ok /\ detectedSetup.routerType = AppRouter
        /\ (~Marker0("app") /\ Marker0("pages")) =>
               detectedSetup.ok /\ detectedSetup.routerType = PagesRouter
        /\ (~Marker0("app") /\ ~Marker0("pages")) => DetectionFailed

C1_Witness ==
    /\ DetectorRan
    /\ <<"src">> \in DOMAIN fs0
    /\ Marker0("app") /\ ~Marker0("pages")
    /\ detectedSetup.routerType = AppRouter

\* C2: with both marker directories present the detector returns the App
\* Router convention.
C2_BothMarkersGiveApp ==
    (DetectorRan /\ Marker0("app") /\ Marker0("pages")) =>
        detectedSetup.ok /\ detectedSetup.routerType = AppRouter

C2_Witness ==
    /\ DetectorRan
    /\ Marker0("app") /\ Marker0("pages")
    /\ detectedSetup.routerType = AppRouter

\* The base scaffold of "add" has just completed.
Scaffolded == cmd = "add" /\ pc = "add_install"

\* C3: a second run of the base scaffold, right after the first and with the
\* same convention and base folder, creates no directory, writes no file and
\* leaves the filesystem as the first run left it.
C3_ScaffoldIdempotent ==
    Scaffolded =>
        LET again == enhanceProject(St(fs, <<>>), rootWritable,
                                    detectedSetup.routerType, baseFolder)
        IN  /\ again.fs = fs
            /\ ~again.threw
            /\ \A i \in 1..Len(again.log) : again.log[i].op \in {"skip", "done"}

C3_Witness ==
    /\ Scaffolded
    /\ "mkdir" \in LogOps /\ "write" \in LogOps
    /\ detectedSetup.routerType = PagesRouter
    /\ baseFolder = ""

\* The template destinations of the scaffold of the current invocation.
Destinations ==
    {fileMappings(detectedSetup.routerType, baseFolder)[i][1] :
        i \in 1..Len(fileMappings(detectedSetup.routerType, baseFolder))}

\* C4: the base scaffold leaves every template destination that existed as a
\* file before the run with the content it had.
C4_ScaffoldKeepsExistingFiles ==
    (cmd = "add" /\ pc \in {"add_install", "done"} /\ detectedSetup.ok) =>
        \A d \in Destinations : IsFile(fs0, d) => IsFile(fs, d) /\ fs[d] = fs0[d]

C4_Witness ==
    /\ Scaffolded
    /\ "write" \in LogOps
    /\ \E d \in Destinations : IsFile(fs0, d) /\ fs[d].content = UserContent

\* C5: "add" in a directory without package.json prints an error and ends
\* with a non-zero exit status.
C5_MissingManifestExitsNonZero ==
    (cmd = "add" /\ pc = "done" /\ ~ExistsSync(fs0, <<"package.json">>)) =>
        "error" \in LogOps /\ exitCode # 0

\* C6: in add, add-redux and add-module, when the detector finds no marker
\* directory the process ends at once with status 1: nothing was created or
\* written, no prompt was asked and no installer was started.
C6_DetectFailureStopsAtOnce ==
    (DetectorRan /\ ~Marker0("app") /\ ~Marker0("pages")) =>
        /\ pc = "done"
        /\ exitCode = 1
        /\ fs = fs0
        /\ LogOps \cap {"mkdir", "write", "append", "prompt", "exec"} = {}

C6_Witness ==
    /\ DetectorRan
    /\ cmd = "add-redux"
    /\ ~Marker0("app") /\ ~Marker0("pages")
    /\ <<"app">> \in DOMAIN fs0
    /\ exitCode = 1

\* The installer of the current invocation ended with a non-zero code.
InstallFailed == pc = "done" /\ log # <<>> /\ log[Len(log)].op = "install-error"

\* C7: when the installer started by add or add-redux fails, everything that
\* existed when it was started is still there with the same content, and the
\* command ends with status 0.
C7_InstallFailureKeepsScaffold ==
    InstallFailed =>
        /\ exitCode = 0
        /\ \A p \in DOMAIN fsPre : p \in DOMAIN fs /\ fs[p] = fsPre[p]

C7_Witness ==
    /\ InstallFailed
    /\ cmd = "add-redux"
    /\ fsPre # fs0
    /\ exitCode = 0


\* The module names of the command line, and those whose loop iteration has
\* ended.
AllModules == ParseNames(args.moduleNames)

ProcessedModules == SubSeq(AllModules, 1, Len(AllModules) - Len(todo))

InModuleLoop == cmd = "add-module" /\ detectedSetup.ok /\ pc \in {"module_loop", "done"}

\* The directory of module nm in the project.
ModuleDir(nm) ==
    (IF baseFolder = "src" THEN <<"src">> ELSE <<>>)
    \o (IF detectedSetup.routerType = AppRouter
        THEN <<"app", "(" \o Str(nm) \o ")">>
        ELSE <<"pages", Str(nm)>>)

ReservedNames == { <<"auth">>, <<"Auth">> }

\* The fixed page template of a sub-route of the reserved module.
AuthTemplateOf(route) ==
    IF detectedSetup.routerType = AppRouter
    THEN "app/(auth)/" \o route \o "/page.template.tsx"
    ELSE "pages/auth/" \o route \o "/page.template.tsx"

\* C8: add-module for the reserved name auth, without flags, makes the two
\* sub-route directories login and register under the module directory and
\* no other, each with the page of the fixed auth template; the user is not
\* asked for sub-route names for it.
C8_AuthModuleFixedSubRoutes ==
    (InModuleLoop /\ ~args.withApi /\ ~args.withRedux) =>
        \A nm \in Range(ProcessedModules) \cap ReservedNames :
            /\ \A r \in {"login", "register"} :
                  /\ IsDir(fs, ModuleDir(nm) \o <<r>>)
                  /\ IsFile(fs, ModuleDir(nm) \o <<r, "page.tsx">>)
                  /\ fs[ModuleDir(nm) \o <<r, "page.tsx">>].content
                        = TemplateContent(AuthTemplateOf(r))
            /\ \A p \in Children(fs, ModuleDir(nm)) \ Children(fs0, ModuleDir(nm)) :
                  p[Len(p)] \in {"login", "register"}
            /\ Ev("prompt", <<"subRoutes", Str(nm)>>) \notin Range(log)

C8_Witness ==
    /\ InModuleLoop /\ ~args.withApi /\ ~args.withRedux
    /\ pc = "done"
    /\ args.moduleNames = <<"m", ",", " ", "auth">>
    /\ IsFile(fs, ModuleDir(<<"auth">>) \o <<"register", "page.tsx">>)
    /\ ModuleDir(<<"auth">>) \notin DOMAIN fs0

\* The module whose loop iteration ended last.
LastModule == ProcessedModules[Len(ProcessedModules)]

\* The comma-separated entries of the last sub-routes answer, trimmed.
AnsweredEntries == MapTrim(Split(answers.subRoutes))

RequestMethods == {"GET", "POST", "PUT", "DELETE"}

\* Files that did not exist when the invocation started.
NewFiles == {p \in DOMAIN fs \ DOMAIN fs0 : IsFile(fs, p)}

\* C9: add-module --with-api for a non-reserved module, answered with N
\* distinct non-empty sub-route names, makes N sub-route directories (names
\* trimmed) and N request-handler stubs, one per name, each answering 200 to
\* POST only and 405 to every other method.
C9_ApiStubPerSubRoute ==
    ( /\ InModuleLoop /\ args.withApi
      /\ ProcessedModules # <<>>
      /\ LastModule \notin ReservedNames
      /\ <<>> \notin Range(AnsweredEntries)
      /\ Cardinality(Range(AnsweredEntries)) = Len(AnsweredEntries) ) =>
        /\ \A n \in Range(AnsweredEntries) : IsDir(fs, ModuleDir(LastModule) \o <<Str(n)>>)
        /\ \A p \in Children(fs, ModuleDir(LastModule)) \ Children(fs0, ModuleDir(LastModule)) :
              IsDir(fs, p) => \E n \in Range(AnsweredEntries) : p[Len(p)] = Str(n)
        /\ \A n \in Range(AnsweredEntries) :
              \E p \in DOMAIN fs :
                 /\ IsFile(fs, p)
                 /\ p[Len(p)] = Str(n) \o ".ts"
                 /\ \A m \in RequestMethods :
                       HandlerStatus(fs[p].content, m) = IF m = "POST" THEN "200" ELSE "405"
        /\ Cardinality({p \in NewFiles :
                           \E n \in Range(AnsweredEntries) : p[Len(p)] = Str(n) \o ".ts"})
              = Len(AnsweredEntries)

\* The environment file chosen in the current invocation.
EnvPath == IF answers.envType = "custom" THEN <<answers.customEnvFile>> ELSE <<answers.envType>>

RECURSIVE LinesFrom(_, _)
\* The lines of a text: the pieces ended by a line break (cur: the line
\* being read, which must be empty at the end of the text).
LinesFrom(c, cur) ==
    IF c = <<>> THEN (IF cur = "" THEN <<>> ELSE <<cur>>)
    ELSE IF Head(c) = NL THEN <<cur>> \o LinesFrom(Tail(c), "")
    ELSE LinesFrom(Tail(c), cur \o Head(c))

\* C10: add-env for a file that did not exist creates it with one header
\* line, followed by the entered variables (the comma-separated entries,
\* trimmed), one per line in the order entered.
C10_NewEnvFileHeaderThenVariables ==
    (cmd = "add-env" /\ EnvPath \notin DOMAIN fs0) =>
        /\ pc = "env_variables" =>
              /\ IsFile(fs, EnvPath)
              /\ LinesFrom(fs[EnvPath].content, "")
                    = <<"# " \o answers.envType \o " Environment Variables">>
        /\ pc = "done" =>
              /\ exitCode = 0
              /\ IsFile(fs, EnvPath)
              /\ fs[EnvPath].content[Len(fs[EnvPath].content)] = NL
              /\ LinesFrom(fs[EnvPath].content, "")
                    = <<"# " \o answers.envType \o " Environment Variables">>
                      \o Strs(MapTrim(Split(answers.envVariables)))

C10_Witness ==
    /\ cmd = "add-env" /\ pc = "done"
    /\ EnvPath \notin DOMAIN fs0
    /\ answers.envType = "custom"
    /\ answers.envVariables = <<" ", "B=2", ",", "A=1", " ">>
    /\ LinesFrom(fs[EnvPath].content, "") = <<"# custom Environment Variables", "B=2", "A=1">>

\* The user was asked whether to append to the existing file and declined.
AppendDeclined ==
    /\ cmd = "add-env"
    /\ EnvPath \in DOMAIN fs0
    /\ Ev("prompt", <<"shouldAppend">>) \in Range(log)
    /\ ~answers.shouldAppend

\* C11: add-env for an existing file, with the user declining to append, ends
\* at once with the filesystem as it was (the file unchanged, no file
\* created) and without asking for the variables.
C11_DeclinedAppendChangesNothing ==
    AppendDeclined =>
        /\ pc = "done"
        /\ exitCode = 0
        /\ fs = fs0
        /\ Ev("prompt", <<"envVariables">>) \notin Range(log)

C11_Witness ==
    /\ AppendDeclined
    /\ pc = "done"
    /\ IsFile(fs0, EnvPath)
    /\ fs[EnvPath].content = UserContent

\* add-redux has run to its end after a successful detection.
ReduxCompleted ==
    cmd = "add-redux" /\ pc = "done" /\ exitCode = 0 /\ detectedSetup.ok

\* Names of slice units that can be in the slices directory.
SliceUnits == { <<"general">>, <<"a">>, <<"b">> }

\* The slice file of unit u under the base folder of the invocation.
SliceFile(u) == sliceDir(baseFolder) \o <<Str(u) \o "Slice.ts">>

\* C12: after add-redux has completed, store/index.ts imports and maps the
\* reducer of every slice unit whose file is in the slices directory.
C12_StoreReferencesAllSlices ==
    ReduxCompleted =>
        \A u \in SliceUnits :
            IsFile(fs, SliceFile(u)) =>
                /\ reducerImport(u) \in Range(fs[storePath(baseFolder)].content)
                /\ reducerMapping(u) \in Range(fs[storePath(baseFolder)].content)

\* add-redux has passed detection and setupRedux has reached its prompt.
ReduxPassedDetection ==
    cmd = "add-redux" /\ detectedSetup.ok /\ pc \in {"redux_prompt", "redux_install", "done"}

\* C13: after an add-redux run that passed detection the store directory,
\* its slices directory and generalSlice.ts exist, and generalSlice.ts and
\* every named slice file that existed before the run have the content they
\* had.
C13_ReduxStoreEnsuredSlicesKept ==
    ReduxPassedDetection =>
        /\ IsDir(fs, storeDir(baseFolder))
        /\ IsDir(fs, sliceDir(baseFolder))
        /\ IsFile(fs, SliceFile(<<"general">>))
        /\ \A u \in SliceUnits :
              IsFile(fs0, SliceFile(u)) =>
                  IsFile(fs, SliceFile(u)) /\ fs[SliceFile(u)] = fs0[SliceFile(u)]

C13_Witness ==
    /\ ReduxPassedDetection
    /\ pc = "done"
    /\ answers.sliceNames = <<"a">>
    /\ IsFile(fs0, SliceFile(<<"a">>))
    /\ fs[SliceFile(<<"a">>)].content = UserContent
    /\ ~ExistsSync(fs0, storeDir(baseFolder) \o <<"index.ts">>)

\* The sub-route page files that existed when the invocation started.
PagesBefore == {p \in DOMAIN fs0 : IsFile(fs0, p) /\ p[Len(p)] = "page.tsx"}

\* C14: add-module never overwrites a sub-route page file (page.tsx) that
\* existed before the invocation.
C14_ModuleKeepsExistingPages ==
    cmd = "add-module" =>
        \A p \in PagesBefore : IsFile(fs, p) /\ fs[p].content = fs0[p].content

\* The name and the directory of the component of the current invocation.
ComponentNameUsed == IF args.name # "" THEN args.name ELSE answers.componentName

ComponentDirUsed == componentDir(baseFolder, args.dir, ComponentNameUsed)

\* The component directory holds the source file and the stylesheet, the
\* test stub exactly when --with-tests was given, and nothing else.
ComponentCreated ==
    /\ IsDir(fs, ComponentDirUsed)
    /\ \A p \in Children(fs, ComponentDirUsed) : IsFile(fs, p)
    /\ {p[Len(p)] : p \in Children(fs, ComponentDirUsed)}
          = {ComponentNameUsed \o ".tsx", ComponentNameUsed \o ".module.css"}
            \cup (IF args.withTests THEN {ComponentNameUsed \o ".test.tsx"} ELSE {})

LogIndices(ops) == {i \in 1..Len(log) : log[i].op \in ops}

ScaffoldOps == {"mkdir", "write", "skip", "done"}

\* "add" ran to its end, with a manifest and a detected setup.
AddSucceeded == cmd = "add" /\ pc = "done" /\ exitCode = 0 /\ detectedSetup.ok

\* C16: in a successful run of add the detector runs first, then the base
\* scaffold, then the installer: the installer is started exactly once, after
\* every directory and file operation of the scaffold, and the filesystem it
\* is started on is the scaffold's result.
C16_AddOrderDetectScaffoldInstall ==
    /\ AddSucceeded =>
          /\ Cardinality(LogIndices({"detect"})) = 1
          /\ Cardinality(LogIndices({"exec"})) = 1
          /\ LogIndices(ScaffoldOps) # {}
          /\ \A d \in LogIndices({"detect"}), s \in LogIndices(ScaffoldOps),
                e \in LogIndices({"exec"}), r \in LogIndices({"installed", "install-error"}) :
                d < s /\ s < e /\ e < r
    /\ (cmd = "add" /\ pc = "add_install") =>
          /\ fs = fsPre
          /\ log[Len(log)].op = "exec"
          /\ log[Len(log) - 1].op = "done"

C16_Witness ==
    /\ AddSucceeded
    /\ "mkdir" \in LogOps /\ "write" \in LogOps /\ "skip" \in LogOps
    /\ log[Len(log)].op = "installed"

\* The directory of the router of the current invocation, under its base folder.
RouterPath == JoinCwd(Under(baseFolder, <<RouterDir(detectedSetup.routerType)>>))

\* C17: after the scaffold of add, a Pages Router project has the files
\* _app.tsx and _error.tsx in its pages directory, and an App Router project
\* layout.tsx and error.tsx in its app directory.
C17_WrapperAndErrorFileNames ==
    Scaffolded =>
        IF detectedSetup.routerType = PagesRouter
        THEN IsFile(fs, RouterPath \o <<"_app.tsx">>) /\ IsFile(fs, RouterPath \o <<"_error.tsx">>)
        ELSE IsFile(fs, RouterPath \o <<"layout.tsx">>) /\ IsFile(fs, RouterPath \o <<"error.tsx">>)

\* add-tailwind ran its setup to the end (the user did not skip it).
TailwindCompleted ==
    /\ cmd = "add-tailwind" /\ pc = "done" /\ exitCode = 0
    /\ "skipped" \notin LogOps

\* C18: after add-tailwind has completed its setup, styles/globals.css under
\* the base folder contains the three Tailwind directives, whether or not
\* the file existed before the run.
C18_GlobalsHasTailwindDirectives ==
    TailwindCompleted =>
        /\ IsFile(fs, globalCSS(baseFolder))
        /\ \A d \in {"@tailwind base;", "@tailwind components;", "@tailwind utilities;"} :
              d \in Range(fs[globalCSS(baseFolder)].content)

\* The base folder of the project as a path.
BasePath == IF baseFolder = "src" THEN <<"src">> ELSE <<>>

\* The entries created since the invocation started.
Created == DOMAIN fs \ DOMAIN fs0

\* C19: what add-module creates for --with-api and --with-redux lies in the
\* project directory under the base folder: nothing is created outside the
\* project, and after a module has been added its API directory
\* <base>/<app|pages>/api/<module> and the slices directory
\* <base>/store/slices are there.
C19_ModuleExtrasUnderBaseFolder ==
    cmd = "add-module" =>
        /\ \A p \in Created : ~Outside(p)
        /\ \A i \in 1..Len(log) :
              log[i].op = "added" =>
                 /\ args.withApi =>
                       \E nm \in Range(ProcessedModules) :
                          /\ Str(nm) = log[i].arg[1]
                          /\ IsDir(fs, BasePath \o <<RouterDir(detectedSetup.routerType),
                                                     "api", Str(nm)>>)
                 /\ args.withRedux => IsDir(fs, BasePath \o <<"store", "slices">>)

\* The entries whose presence or content differs from the start of the
\* invocation.
Changed == {p \in DOMAIN fs \cup DOMAIN fs0 :
               p \notin DOMAIN fs \/ p \notin DOMAIN fs0 \/ fs[p] # fs0[p]}

\* The paths the handler reported creating or writing after the detector
\* returned (mkdir -p also creates the missing parents), and what the
\* installer leaves.
Accounted ==
    UNION { Prefixes(JoinCwd(log[i].arg)) \cup Prefixes(log[i].arg) :
              i \in LogIndices({"mkdir", "write", "append"}) }
    \cup (IF "installed" \in LogOps THEN {<<"node_modules">>} ELSE {})

\* C20: detectProjectSetup leaves the filesystem as it found it, whether it
\* returns a setup or fails: when it has failed the filesystem is the one
\* the invocation started with, and when it has returned a setup every
\* difference is an operation the handler performed after it.
C20_DetectorLeavesFilesystem ==
    DetectorRan =>
        /\ ~detectedSetup.ok => fs = fs0
        /\ LogIndices({"mkdir", "write", "append"}) = {} /\ "installed" \notin LogOps => fs = fs0
        /\ Changed \subseteq Accounted

C20_Witness ==
    /\ DetectorRan
    /\ cmd = "add-module" /\ pc = "module_loop"
    /\ detectedSetup.ok /\ detectedSetup.hasSrc
    /\ todo # <<>> /\ ProcessedModules = <<>>
    /\ fs = fs0

\* The project had a src directory when the invocation started.
SrcAtStart == ExistsSync(fs0, <<"src">>)

\* The result the detector gives for markers found at one level.
SetupFor(hasApp, hasPages) ==
    /\ detectedSetup.ok
    /\ detectedSetup.routerType = (IF hasApp THEN AppRouter ELSE PagesRouter)
    /\ detectedSetup.hasPages = hasPages

\* C21: the detector records usesSourceDir exactly when src exists, and then
\* looks for the markers only under src; without src only at the top.  A
\* project with src and app or pages at the top, but neither src/app nor
\* src/pages, is a configuration error.
C21_ProbesUnderSrcWhenPresent ==
    DetectorRan =>
        /\ detectedSetup.ok => (detectedSetup.hasSrc <=> SrcAtStart)
        /\ SrcAtStart =>
              IF ExistsSync(fs0, <<"src", "app">>) \/ ExistsSync(fs0, <<"src", "pages">>)
              THEN SetupFor(ExistsSync(fs0, <<"src", "app">>), ExistsSync(fs0, <<"src", "pages">>))
              ELSE DetectionFailed
        /\ ~SrcAtStart =>
              IF ExistsSync(fs0, <<"app">>) \/ ExistsSync(fs0, <<"pages">>)
              THEN SetupFor(ExistsSync(fs0, <<"app">>), ExistsSync(fs0, <<"pages">>))
              ELSE DetectionFailed

C21_Witness ==
    /\ DetectorRan
    /\ cmd = "add-module"
    /\ SrcAtStart
    /\ ExistsSync(fs0, <<"app">>) /\ ExistsSync(fs0, <<"pages">>)
    /\ ~ExistsSync(fs0, <<"src", "app">>) /\ ~ExistsSync(fs0, <<"src", "pages">>)
    /\ DetectionFailed

\* The directories of the scaffold of the current invocation, and those of
\* them that were there when it started.
ScaffoldDirs ==
    {JoinCwd(folderStructures(detectedSetup.routerType, baseFolder)[i]) :
        i \in 1..Len(folderStructures(detectedSetup.routerType, baseFolder))}

DirsBefore == {d \in ScaffoldDirs : IsDir(fs0, d)}

\* Path p is d or lies inside d.
Within(d, p) == Len(p) >= Len(d) /\ SubSeq(p, 1, Len(d)) = d

\* C22: for a directory of the convention's list that exists before the run,
\* the scaffold performs no create operation, reports a skip and leaves the
\* directory and everything that was inside it as it was; what appears
\* inside is only a template destination; the run does not fail.
C22_ExistingDirectoriesSkipped ==
    /\ Scaffolded =>
          \A d \in DirsBefore :
              /\ Ev("mkdir", d) \notin Range(log)
              /\ Ev("skip", d) \in Range(log)
              /\ \A p \in DOMAIN fs0 : Within(d, p) => p \in DOMAIN fs /\ fs[p] = fs0[p]
              /\ \A p \in DOMAIN fs \ DOMAIN fs0 : Within(d, p) => p \in Destinations
    /\ (cmd = "add" /\ detectedSetup.ok /\ pc \in {"add_install", "done"}) =>
          "throw" \notin LogOps /\ exitCode \in {Running, 0}

C22_Witness ==
    /\ Scaffolded
    /\ \E d \in DirsBefore : \E p \in DOMAIN fs0 : Within(d, p) /\ IsFile(fs0, p)
    /\ "mkdir" \in LogOps

\* The directories the scaffold is to provide under the base folder: the
\* feature directories and the API directory of the convention.
FixedDirs ==
    {BasePath \o d : d \in { <<"components", "ui">>, <<"hooks">>, <<"lib">>, <<"services">>,
                             <<"styles">>, <<"types">>, <<"utils">>,
                             <<RouterDir(detectedSetup.routerType), "api">> }}

\* C23: after the base scaffold has completed, every directory of the
\* convention's list and every template destination file exists, whatever
\* existed before the run.
C23_ScaffoldProvidesDirsAndFiles ==
    Scaffolded =>
        /\ \A d \in FixedDirs : IsDir(fs, d)
        /\ ScaffoldDirs = FixedDirs
        /\ \A f \in Destinations : IsFile(fs, f)
        /\ Cardinality(Destinations) = 5

C23_Witness ==
    /\ Scaffolded
    /\ \E d \in FixedDirs : ~ExistsSync(fs0, d)
    /\ \E f \in Destinations : IsFile(fs0, f)
    /\ \E f \in Destinations : ~ExistsSync(fs0, f)

\* The user was asked whether to append to the existing file and accepted.
AppendAccepted ==
    /\ cmd = "add-env"
    /\ EnvPath \in DOMAIN fs0
    /\ Ev("prompt", <<"shouldAppend">>) \in Range(log)
    /\ answers.shouldAppend

\* What the invocation added at the end of the environment file.
AppendedPart == SubSeq(fs[EnvPath].content, Len(fs0[EnvPath].content) + 1, Len(fs[EnvPath].content))

\* C24: add-env for an existing file, with the user accepting to append, only
\* appends: the content before the run is a prefix of the content after it,
\* no header line is added, and what is appended is the comma-separated
\* entries, trimmed, one per line in the order entered; nothing else changes.
C24_AcceptedAppendOnlyAppends ==
    AppendAccepted =>
        /\ pc = "env_variables" => fs = fs0
        /\ pc = "done" =>
              /\ exitCode = 0
              /\ DOMAIN fs = DOMAIN fs0
              /\ \A p \in DOMAIN fs0 \ {EnvPath} : fs[p] = fs0[p]
              /\ IsFile(fs, EnvPath)
              /\ Len(fs[EnvPath].content) >= Len(fs0[EnvPath].content)
              /\ SubSeq(fs[EnvPath].content, 1, Len(fs0[EnvPath].content)) = fs0[EnvPath].content
              /\ AppendedPart[Len(AppendedPart)] = NL
              /\ LinesFrom(AppendedPart, "") = Strs(MapTrim(Split(answers.envVariables)))
              /\ Ev("write", EnvPath) \notin Range(log)

C24_Witness ==
    /\ AppendAccepted /\ pc = "done"
    /\ fs0[EnvPath].content # <<>>
    /\ answers.envVariables = <<" ", "B=2", ",", "A=1", " ">>
    /\ LinesFrom(AppendedPart, "") = <<"B=2", "A=1">>

\* The component directory of the current invocation existed before it.
ComponentExisted ==
    /\ cmd = "add-component" /\ pc = "done"
    /\ ComponentNameUsed # ""
    /\ ExistsSync(fs0, ComponentDirUsed)

WritingCommands == { "add", "add-redux", "add-module", "add-component", "add-tailwind" }

\* The writes of the current invocation that failed.
FailedWrites == {log[i].arg : i \in LogIndices({"throw"})}

\* C26: in add, add-redux, add-module, add-component and add-tailwind, when
\* a file is written its parent directory exists: no write fails for want of
\* the directory that is to contain the file.
C26_ParentDirectoryExistsAtWrite ==
    cmd \in WritingCommands =>
        \A p \in FailedWrites : ExistsSync(fs, Parent(p))

\* C27: when add has detected a convention and completed the scaffold, for
\* every answer to the src prompts, detecting again in the same directory
\* succeeds and selects the same routing convention.
C27_DetectionStableAcrossScaffold ==
    Scaffolded =>
        /\ detectProjectSetup(fs).ok
        /\ detectProjectSetup(fs).routerType = detectedSetup.routerType

C27_Witness ==
    /\ Scaffolded
    /\ answers.createSrc
    /\ ~ExistsSync(fs0, <<"src">>)
    /\ IsDir(fs, <<"src">>)
    /\ detectProjectSetup(fs).ok

\* The notice given for module nm when its answer holds no sub-route name.
NoSubRoutes(nm) == Ev("error", <<"No valid sub-route names for " \o Str(nm)>>)

\* A step of the loop of add-module for a module whose sub-route answer holds
\* no name after trimming and dropping the empty entries.
EmptyAnswerStep ==
    /\ cmd = "add-module" /\ pc = "module_loop" /\ todo # <<>>
    /\ log' # log
    /\ ~isAuthModule(Head(todo))
    /\ ParseNames(answers'.subRoutes) = <<>>

\* C28: in add-module with several module names, a module whose sub-route
\* answer yields no valid name changes nothing in the filesystem, and the
\* loop goes on with the remaining module names in their order.
C28_EmptySubRoutesSkipModule ==
    [][EmptyAnswerStep =>
          /\ fs' = fs
          /\ log'[Len(log')] = NoSubRoutes(Head(todo))
          /\ todo' = Tail(todo)
          /\ IF Tail(todo) # <<>>
             THEN pc' = "module_loop" /\ exitCode' = Running
             ELSE pc' = "done" /\ exitCode' = 0]_vars

\* The loop takes the module names in the order of the command line.
C28_Witness ==
    /\ cmd = "add-module" /\ pc = "done" /\ exitCode = 0
    /\ Len(AllModules) = 2 /\ todo = <<>>
    /\ \E i, j \in 1..Len(log) :
          /\ i < j
          /\ log[i] = NoSubRoutes(AllModules[1])
          /\ log[j] = Ev("added", <<Str(AllModules[2])>>)
    /\ IsDir(fs, ModuleDir(AllModules[2]))
    /\ ~ExistsSync(fs, ModuleDir(AllModules[1]))

\* tailwind.config.js existed, the user was asked whether to reconfigure and
\* declined.
ReconfigureDeclined ==
    /\ cmd = "add-tailwind"
    /\ ExistsSync(fs0, tailwindConfig)
    /\ Ev("prompt", <<"shouldContinue">>) \in Range(log)
    /\ ~answers.shouldContinue

\* C29: when tailwind.config.js exists and the user declines to reconfigure,
\* add-tailwind changes nothing: no installer or init process is run,
\* tailwind.config.js and globals.css are not written, no directory is made.
C29_DeclinedReconfigureChangesNothing ==
    ReconfigureDeclined =>
        /\ pc = "done" /\ exitCode = 0
        /\ fs = fs0
        /\ LogOps = {"prompt", "skipped"}

C29_Witness ==
    /\ ReconfigureDeclined /\ pc = "done"
    /\ ~ExistsSync(fs0, stylesDir(baseFolder))
    /\ fs = fs0

=============================================================================
